---- MODULE Spec2Model ----
(***************************************************************************)
(* squish-test-balancer: main.py (main, distribute_tests, worker,          *)
(* run_squish_test, sort_test_cases_by_execution_time) and                 *)
(* historical_times.py (HistoricalTimes).                                  *)
(*                                                                         *)
(* A run: the store is loaded at import, main reads the configuration and  *)
(* discovers the test cases, sorts them, calls distribute_tests (one       *)
(* worker thread per server draining one shared Queue), then saves the     *)
(* store.  Worker steps are split at every access to shared state          *)
(* (Queue.empty, Queue.get_nowait, the store's membership test, the        *)
(* store's write, Queue.task_done), so every thread interleaving that      *)
(* CPython can produce is a behaviour of Spec.                             *)
(***************************************************************************)
EXTENDS Integers, Sequences, FiniteSets, TLC

\* ---------------------------------------------------------------- bounds
MaxTests == 2
MaxServers == 2
MaxDur == 2
MaxHist == 1
NumNames == 2
SortMaxTests == 3
StatsMaxLen == 2

VARIABLES
    mpc,                 \* main's position
    squish_servers,      \* number of configured servers (Config.squishservers)
    test_cases,          \* discovered TestCase objects, in discovery order
    tc_name,             \* TestCase.name of each discovered object
    sorted_test_cases,   \* main's local sorted_test_cases
    execution_history,   \* history.execution_history: name -> list of durations
    file,                \* the store file: NoFile, or [partial, data]
    loaded,              \* the mapping as it was loaded at import
    saves,               \* completed save_execution_history calls
    stats,               \* the statistics last read from the store, per name
    task_done_calls,     \* calls of Queue.task_done, the raising ones included
    test_case_queue,     \* Queue contents
    unfinished_tasks,    \* Queue.unfinished_tasks
    results,             \* distribute_tests' results dict
    server_test_counts,  \* distribute_tests' server_test_counts dict
    wpc,                 \* each worker's position
    wtc,                 \* each worker's local test_case (Unbound before a pop)
    wres,                \* each worker's pending (success, duration, key seen)
    popped,              \* the tests in the order get_nowait handed them out
    runs,                \* number of run_squish_test calls per test
    outcome              \* how each test's invocation ended, and its duration

vars == <<mpc, squish_servers, test_cases, tc_name, sorted_test_cases,
          execution_history, file, loaded, saves, stats, task_done_calls,
          test_case_queue,
          unfinished_tasks, results, server_test_counts, wpc, wtc, wres,
          popped, runs, outcome>>

\* ------------------------------------------------------------- data sets
EmptyDict == [k \in {} |-> 0]

Names == 1..NumNames
Durations == 1..MaxDur
AllTests == 1..MaxTests
AllServers == 1..MaxServers
Servers == 1..squish_servers
Tests == 1..Len(test_cases)

\* a worker's test_case before its first successful get_nowait
Unbound == 0
\* the store file before any run has written it
NoFile == [exists |-> FALSE, partial |-> FALSE, data |-> <<>>]
NoResult == [success |-> FALSE, duration |-> 0, seen |-> FALSE]
NotRun == [kind |-> "none", duration |-> 0]
\* no statistic has been read
NoStats == [k \in {} |-> 0]

\* subprocess.run ends with exit status 0, with the sentinel 44, with
\* another non-zero status (all three through CalledProcessError or a normal
\* return), or raises something that is not a CalledProcessError.
Outcomes == {"ok", "fail44", "error", "raise"}

\* d[k] = v on a Python dict
Put(d, k, v) == [x \in (DOMAIN d) \cup {k} |-> IF x = k THEN v ELSE d[x]]

\* the lists a store written by earlier runs can hold for one name
StoredLists == UNION {[1..k -> Durations] : k \in 1..MaxHist}

\* the mappings a store written by earlier runs can hold
StoredMappings == UNION {[K -> StoredLists] : K \in SUBSET Names}

\* ------------------------------------------------------ HistoricalTimes
RECURSIVE Sum(_)
Sum(s) == IF s = <<>> THEN 0 ELSE Head(s) + Sum(Tail(s))

get_execution_times(h, name) == IF name \in DOMAIN h THEN h[name] ELSE <<>>

\* get_average_execution_time as the fraction <<numerator, denominator>>
get_average_execution_time(h, name) ==
    LET times == get_execution_times(h, name)
    IN  IF times # <<>> THEN <<Sum(times), Len(times)>> ELSE <<0, 1>>

\* a < b on two means
MeanLess(a, b) == a[1] * b[2] < b[1] * a[2]

\* sorted(data), ascending
RECURSIVE InsertAsc(_, _)
InsertAsc(x, s) ==
    IF s = <<>> THEN <<x>>
    ELSE IF x < Head(s) THEN <<x>> \o s
         ELSE <<Head(s)>> \o InsertAsc(x, Tail(s))

RECURSIVE SortedAsc(_)
SortedAsc(s) == IF s = <<>> THEN <<>> ELSE InsertAsc(Head(s), SortedAsc(Tail(s)))

\* statistics.median: the middle value, or the mean of the two middle ones
statistics_median(data) ==
    LET d == SortedAsc(data)
        n == Len(d)
    IN  IF n % 2 = 1 THEN <<d[(n \div 2) + 1], 1>>
        ELSE <<d[n \div 2] + d[(n \div 2) + 1], 2>>

\* get_median_execution_time as a fraction
get_median_execution_time(h, name) ==
    LET times == get_execution_times(h, name)
    IN  IF times # <<>> THEN statistics_median(times) ELSE <<0, 1>>

\* sum of (n*x - S)^2 over the samples x, n their number and S their sum
RECURSIVE SquaredDeviations(_, _, _)
SquaredDeviations(s, n, S) ==
    IF s = <<>> THEN 0
    ELSE (n * Head(s) - S) * (n * Head(s) - S) + SquaredDeviations(Tail(s), n, S)

\* statistics.stdev is the square root of the sample variance
\* sum((x - mean)^2) / (n - 1); the result is given by its square, as the
\* fraction sum((n*x - S)^2) / (n^2 * (n - 1))
statistics_stdev(data) ==
    LET n == Len(data)
    IN  <<SquaredDeviations(data, n, Sum(data)), n * n * (n - 1)>>

\* a guard that lets a single sample through to statistics.stdev
get_standard_deviation_any(h, name) ==
    LET times == get_execution_times(h, name)
    IN  IF Len(times) > 0 THEN statistics_stdev(times) ELSE <<0, 1>>

\* get_standard_deviation, by its square
get_standard_deviation(h, name) ==
    LET times == get_execution_times(h, name)
    IN  IF Len(times) > 1 THEN statistics_stdev(times) ELSE <<0, 1>>

\* update_historical_time once the membership test has answered `seen`
update_historical_time(h, name, t, seen) ==
    IF seen /\ name \in DOMAIN h
    THEN [h EXCEPT ![name] = Append(@, t)]
    ELSE Put(h, name, <<t>>)

\* json.dump(mapping): the members as <<key, list>> pairs, one after the
\* other (here by ascending key); a float is written by repr, which
\* float() reads back to the same value, so a list is written as it is
RECURSIVE DumpMembers(_, _)
DumpMembers(d, K) ==
    IF K = {} THEN <<>>
    ELSE LET k == CHOOSE x \in K : \A y \in K : x <= y
         IN  <<<<k, d[k]>>>> \o DumpMembers(d, K \ {k})

\* a dump that keeps one sample per name
json_dump_one_sample(d) == DumpMembers([k \in DOMAIN d |-> <<d[k][1]>>], DOMAIN d)

json_dump(d) == DumpMembers(d, DOMAIN d)

\* json.load(text): the dict of the members; a later member replaces an
\* earlier one of the same key
json_load(text) ==
    [k \in {text[i][1] : i \in DOMAIN text} |->
        LET last == CHOOSE i \in DOMAIN text :
                        /\ text[i][1] = k
                        /\ \A j \in DOMAIN text : text[j][1] = k => j <= i
        IN  text[last][2]]

\* load_execution_history: a missing file leaves the mapping empty
load_execution_history(f) == IF f.exists THEN json_load(f.data) ELSE EmptyDict

\* ----------------------------------- sort_test_cases_by_execution_time
\* a sort that puts x in front of the elements whose key equals its own
RECURSIVE InsertDesc_before_equal(_, _, _, _)
InsertDesc_before_equal(h, names, x, s) ==
    IF s = <<>> THEN <<x>>
    ELSE IF ~MeanLess(get_average_execution_time(h, names[x]),
                      get_average_execution_time(h, names[Head(s)]))
         THEN <<x>> \o s
         ELSE <<Head(s)>> \o InsertDesc_before_equal(h, names, x, Tail(s))

\* sorted(..., reverse=True) is stable: x goes behind every element whose
\* key is not smaller than its own.
RECURSIVE InsertDesc(_, _, _, _)
InsertDesc(h, names, x, s) ==
    IF s = <<>> THEN <<x>>
    ELSE IF MeanLess(get_average_execution_time(h, names[Head(s)]),
                     get_average_execution_time(h, names[x]))
         THEN <<x>> \o s
         ELSE <<Head(s)>> \o InsertDesc(h, names, x, Tail(s))

RECURSIVE SortFrom(_, _, _, _)
SortFrom(h, names, todo, acc) ==
    IF todo = <<>> THEN acc
    ELSE SortFrom(h, names, Tail(todo), InsertDesc(h, names, Head(todo), acc))

sort_test_cases_by_execution_time(h, names, tcs) == SortFrom(h, names, tcs, <<>>)

\* ------------------------------------------------------------------ Init
Init ==
    /\ mpc = "start"
    /\ squish_servers \in 0..MaxServers
    /\ \E n \in 0..MaxTests :
          /\ test_cases = [i \in 1..n |-> i]
          /\ tc_name \in [1..n -> Names]
    /\ sorted_test_cases = <<>>
    /\ file \in {NoFile} \cup {[exists |-> TRUE, partial |-> FALSE, data |-> json_dump(m)] : m \in StoredMappings}
    /\ execution_history = load_execution_history(file)
    /\ loaded = execution_history
    /\ saves = 0
    /\ stats = NoStats
    /\ task_done_calls = 0
    /\ test_case_queue = <<>>
    /\ unfinished_tasks = 0
    /\ results = EmptyDict
    /\ server_test_counts = EmptyDict
    /\ wpc = [s \in AllServers |-> "idle"]
    /\ wtc = [s \in AllServers |-> Unbound]
    /\ wres = [s \in AllServers |-> NoResult]
    /\ popped = <<>>
    /\ runs = [t \in AllTests |-> 0]
    /\ outcome = [t \in AllTests |-> NotRun]

distVars == <<test_case_queue, unfinished_tasks, results, server_test_counts,
              wpc, wtc, wres, popped, runs, outcome>>
cfgVars == <<squish_servers, test_cases, tc_name, loaded>>

\* ------------------------------------------------------------------ main
\* main: no squishservers in the configuration -> sys.exit(1)
MainCheckServers ==
    /\ mpc = "start"
    /\ mpc' = IF squish_servers = 0 THEN "exit1" ELSE "find"
    /\ UNCHANGED <<cfgVars, sorted_test_cases, execution_history, file, saves, stats, task_done_calls, distVars>>

\* main without the `if not test_cases` exit
MainFindAndSort_nocheck ==
    /\ mpc = "find"
    /\ mpc' = "distribute"
    /\ sorted_test_cases' =
          sort_test_cases_by_execution_time(execution_history, tc_name, test_cases)
    /\ UNCHANGED <<cfgVars, execution_history, file, saves, stats, task_done_calls, distVars>>

\* main: find_test_cases, sys.exit(1) when none, then the sort
MainFindAndSort ==
    /\ mpc = "find"
    /\ IF test_cases = <<>>
       THEN mpc' = "exit1" /\ UNCHANGED sorted_test_cases
       ELSE /\ mpc' = "distribute"
            /\ sorted_test_cases' =
                  sort_test_cases_by_execution_time(execution_history, tc_name, test_cases)
    /\ UNCHANGED <<cfgVars, execution_history, file, saves, stats, task_done_calls, distVars>>

\* the list main hands to distribute_tests
DistributeArgument == test_cases

\* distribute_tests up to the submission of the workers
MainDistribute ==
    /\ mpc = "distribute"
    /\ mpc' = "join"
    /\ results' = EmptyDict
    /\ test_case_queue' = DistributeArgument
    /\ unfinished_tasks' = Len(DistributeArgument)
    /\ server_test_counts' = [s \in Servers |-> 0]
    /\ wpc' = [s \in AllServers |-> IF s \in Servers THEN "loop" ELSE "idle"]
    /\ UNCHANGED <<cfgVars, sorted_test_cases, execution_history, file, saves, stats, task_done_calls,
                   wtc, wres, popped, runs, outcome>>

WorkerFinished(s) == wpc[s] \in {"done", "raised"}

\* distribute_tests waiting for its first future only
AllFuturesDone_first == WorkerFinished(1)

\* leaving the with-block: future.result() on each future in turn, then
\* ThreadPoolExecutor.__exit__ (shutdown(wait=True))
AllFuturesDone == \A s \in Servers : WorkerFinished(s)

\* distribute_tests returns results, or re-raises a worker's exception
MainJoin ==
    /\ mpc = "join"
    /\ AllFuturesDone
    /\ mpc' = IF \E s \in Servers : wpc[s] = "raised" THEN "raised" ELSE "returned"
    /\ UNCHANGED <<cfgVars, sorted_test_cases, execution_history, file, saves, stats, task_done_calls, distVars>>

\* save_execution_history: open(file_path, "w") truncates the file
MainSaveOpen ==
    /\ mpc = "returned"
    /\ mpc' = "saving"
    /\ file' = [exists |-> TRUE, partial |-> TRUE, data |-> <<>>]
    /\ UNCHANGED <<cfgVars, sorted_test_cases, execution_history, saves, stats, task_done_calls, distVars>>

\* save_execution_history: json.dump and close
MainSaveDump ==
    /\ mpc = "saving"
    /\ mpc' = "exit0"
    /\ file' = [exists |-> TRUE, partial |-> FALSE, data |-> json_dump(execution_history)]
    /\ saves' = saves + 1
    /\ UNCHANGED <<cfgVars, sorted_test_cases, execution_history, stats,
                   task_done_calls, distVars>>

\* ---------------------------------------------------------------- worker
\* while not test_case_queue.empty()
WorkerCheckEmpty(s) ==
    /\ wpc[s] = "loop"
    /\ wpc' = [wpc EXCEPT ![s] = IF test_case_queue = <<>> THEN "done" ELSE "get"]
    /\ UNCHANGED <<mpc, cfgVars, sorted_test_cases, execution_history, file, saves, stats, task_done_calls,
                   test_case_queue, unfinished_tasks, results, server_test_counts,
                   wtc, wres, popped, runs, outcome>>

\* a get that hands out the head without removing it
QueueAfterGet_peek(q) == q

\* what get_nowait leaves on the queue
QueueAfterGet(q) == Tail(q)

\* a worker that waits in test_case_queue.get() for an item
WorkerGet_blocking(s) ==
    /\ wpc[s] = "get"
    /\ test_case_queue # <<>>
    /\ wtc' = [wtc EXCEPT ![s] = Head(test_case_queue)]
    /\ popped' = Append(popped, Head(test_case_queue))
    /\ test_case_queue' = QueueAfterGet(test_case_queue)
    /\ wpc' = [wpc EXCEPT ![s] = "run"]
    /\ UNCHANGED <<mpc, cfgVars, sorted_test_cases, execution_history, file, saves, stats,
                   task_done_calls, unfinished_tasks, results, server_test_counts, wres,
                   runs, outcome>>

\* test_case = test_case_queue.get_nowait(); queue.Empty goes to the handler
WorkerGet(s) ==
    /\ wpc[s] = "get"
    /\ IF test_case_queue = <<>>
       THEN /\ wpc' = [wpc EXCEPT ![s] = "handler"]
            /\ UNCHANGED <<test_case_queue, wtc, popped>>
       ELSE /\ wtc' = [wtc EXCEPT ![s] = Head(test_case_queue)]
            /\ popped' = Append(popped, Head(test_case_queue))
            /\ test_case_queue' = QueueAfterGet(test_case_queue)
            /\ wpc' = [wpc EXCEPT ![s] = "run"]
    /\ UNCHANGED <<mpc, cfgVars, sorted_test_cases, execution_history, file, saves, stats, task_done_calls,
                   unfinished_tasks, results, server_test_counts, wres, runs, outcome>>

\* run_squish_test up to the membership test of update_historical_time;
\* an exception that is not a CalledProcessError leaves run_squish_test
WorkerInvoke(s) ==
    /\ wpc[s] = "run"
    /\ runs' = [runs EXCEPT ![wtc[s]] = @ + 1]
    /\ \/ /\ outcome' = [outcome EXCEPT ![wtc[s]] = [kind |-> "raise", duration |-> 0]]
          /\ wpc' = [wpc EXCEPT ![s] = "handler"]
          /\ UNCHANGED wres
       \/ \E o \in Outcomes \ {"raise"}, d \in Durations :
             /\ outcome' = [outcome EXCEPT ![wtc[s]] = [kind |-> o, duration |-> d]]
             /\ wpc' = [wpc EXCEPT ![s] = "update"]
             /\ wres' = [wres EXCEPT ![s] =
                   [success |-> (o = "ok"), duration |-> d,
                    seen |-> (tc_name[wtc[s]] \in DOMAIN execution_history)]]
    /\ UNCHANGED <<mpc, cfgVars, sorted_test_cases, execution_history, file, saves, stats, task_done_calls,
                   test_case_queue, unfinished_tasks, results, server_test_counts,
                   wtc, popped>>

\* the write of update_historical_time, the return of run_squish_test,
\* results[test_case] = [...] and server_test_counts[str(server)] += 1
WorkerRecord(s) ==
    /\ wpc[s] = "update"
    /\ execution_history' = update_historical_time(execution_history,
                               tc_name[wtc[s]], wres[s].duration, wres[s].seen)
    /\ results' = Put(results, wtc[s],
                      [success |-> wres[s].success, server |-> s,
                       duration |-> wres[s].duration])
    /\ server_test_counts' = [server_test_counts EXCEPT ![s] = @ + 1]
    /\ wpc' = [wpc EXCEPT ![s] = "task_done"]
    /\ UNCHANGED <<mpc, cfgVars, sorted_test_cases, file, saves, stats, task_done_calls, test_case_queue,
                   unfinished_tasks, wtc, wres, popped, runs, outcome>>

\* Queue.task_done raises ValueError when called too many times
TaskDoneRaises == unfinished_tasks - 1 < 0

\* test_case_queue.task_done() in the try block
WorkerTaskDone(s) ==
    /\ wpc[s] = "task_done"
    /\ IF TaskDoneRaises
       THEN wpc' = [wpc EXCEPT ![s] = "handler"] /\ UNCHANGED unfinished_tasks
       ELSE /\ wpc' = [wpc EXCEPT ![s] = "loop"]
            /\ unfinished_tasks' = unfinished_tasks - 1
    /\ task_done_calls' = task_done_calls + 1
    /\ UNCHANGED <<mpc, cfgVars, sorted_test_cases, execution_history, file, saves, stats,
                   test_case_queue, results, server_test_counts, wtc, wres, popped,
                   runs, outcome>>

\* an except block placed around the loop instead of inside it
AfterHandler_exit == "done"

\* where the except block leaves the worker when nothing escapes it
AfterHandler == "loop"

\* except Exception: the log line reads test_case (UnboundLocalError when
\* the worker never popped one), then test_case_queue.task_done()
WorkerHandler(s) ==
    /\ wpc[s] = "handler"
    /\ IF wtc[s] = Unbound \/ TaskDoneRaises
       THEN wpc' = [wpc EXCEPT ![s] = "raised"] /\ UNCHANGED unfinished_tasks
       ELSE /\ wpc' = [wpc EXCEPT ![s] = AfterHandler]
            /\ unfinished_tasks' = unfinished_tasks - 1
    /\ task_done_calls' = IF wtc[s] = Unbound THEN task_done_calls ELSE task_done_calls + 1
    /\ UNCHANGED <<mpc, cfgVars, sorted_test_cases, execution_history, file, saves, stats,
                   test_case_queue, results, server_test_counts, wtc, wres, popped,
                   runs, outcome>>

Next ==
    \/ MainCheckServers
    \/ MainFindAndSort
    \/ MainDistribute
    \/ MainJoin
    \/ MainSaveOpen
    \/ MainSaveDump
    \/ \E s \in Servers : WorkerCheckEmpty(s)
    \/ \E s \in Servers : WorkerGet(s)
    \/ \E s \in Servers : WorkerInvoke(s)
    \/ \E s \in Servers : WorkerRecord(s)
    \/ \E s \in Servers : WorkerTaskDone(s)
    \/ \E s \in Servers : WorkerHandler(s)

Spec == Init /\ [][Next]_vars

\* the interpreter keeps running some thread that can take a step, and
\* every invocation of a test ends
FairSpec == Spec /\ WF_vars(Next)

\* ------------------------------------------- the sort on its own
\* main after the configuration was read, with a backlog of up to
\* SortMaxTests discovered test cases and any store earlier runs left
SortInit ==
    /\ mpc = "find"
    /\ squish_servers = 1
    /\ \E n \in 0..SortMaxTests :
          /\ test_cases = [i \in 1..n |-> i]
          /\ tc_name \in [1..n -> Names]
    /\ sorted_test_cases = <<>>
    /\ file \in {NoFile} \cup {[exists |-> TRUE, partial |-> FALSE, data |-> json_dump(m)] : m \in StoredMappings}
    /\ execution_history = load_execution_history(file)
    /\ loaded = execution_history
    /\ saves = 0
    /\ stats = NoStats
    /\ task_done_calls = 0
    /\ test_case_queue = <<>>
    /\ unfinished_tasks = 0
    /\ results = EmptyDict
    /\ server_test_counts = EmptyDict
    /\ wpc = [s \in AllServers |-> "idle"]
    /\ wtc = [s \in AllServers |-> Unbound]
    /\ wres = [s \in AllServers |-> NoResult]
    /\ popped = <<>>
    /\ runs = [t \in AllTests |-> 0]
    /\ outcome = [t \in AllTests |-> NotRun]

SortNext == MainFindAndSort

SortSpec == SortInit /\ [][SortNext]_vars

\* ------------------------------------------ the store on its own
\* the lists and mappings a HistoricalTimes object can hold
StatsLists == UNION {[1..k -> Durations] : k \in 1..StatsMaxLen}
StatsMappings == UNION {[K -> StatsLists] : K \in SUBSET Names}

\* a HistoricalTimes object holding any mapping, no store file yet, and a
\* second, fresh object (its mapping is `loaded`) that has not loaded
StoreInit ==
    /\ mpc = "store"
    /\ squish_servers = 0
    /\ test_cases = <<>>
    /\ tc_name = <<>>
    /\ sorted_test_cases = <<>>
    /\ file = NoFile
    /\ execution_history \in StatsMappings
    /\ loaded = EmptyDict
    /\ saves = 0
    /\ stats = NoStats
    /\ task_done_calls = 0
    /\ test_case_queue = <<>>
    /\ unfinished_tasks = 0
    /\ results = EmptyDict
    /\ server_test_counts = EmptyDict
    /\ wpc = [s \in AllServers |-> "idle"]
    /\ wtc = [s \in AllServers |-> Unbound]
    /\ wres = [s \in AllServers |-> NoResult]
    /\ popped = <<>>
    /\ runs = [t \in AllTests |-> 0]
    /\ outcome = [t \in AllTests |-> NotRun]

storeRest == <<squish_servers, test_cases, tc_name, sorted_test_cases,
               task_done_calls, distVars>>

\* get_average_execution_time, get_median_execution_time and
\* get_standard_deviation of every name
StoreStatistics ==
    /\ stats = NoStats
    /\ stats' = [n \in Names |->
                    [mean |-> get_average_execution_time(execution_history, n),
                     median |-> get_median_execution_time(execution_history, n),
                     stdev |-> get_standard_deviation(execution_history, n)]]
    /\ UNCHANGED <<mpc, execution_history, file, loaded, saves, storeRest>>

\* save_execution_history, open and json.dump
StoreSave ==
    /\ mpc = "store"
    /\ mpc' = "stored"
    /\ file' = [exists |-> TRUE, partial |-> FALSE, data |-> json_dump(execution_history)]
    /\ saves' = saves + 1
    /\ UNCHANGED <<execution_history, loaded, stats, storeRest>>

\* HistoricalTimes() on the saved file: load_execution_history
StoreLoad ==
    /\ mpc = "stored"
    /\ mpc' = "reloaded"
    /\ loaded' = load_execution_history(file)
    /\ UNCHANGED <<execution_history, file, saves, stats, storeRest>>

StoreNext ==
    \/ StoreStatistics
    \/ StoreSave
    \/ StoreLoad

StoreSpec == StoreInit /\ [][StoreNext]_vars

\* ======================================================== properties
\* number of times test t occurs in sequence q
RECURSIVE Count(_, _)
Count(q, t) == IF q = <<>> THEN 0 ELSE (IF Head(q) = t THEN 1 ELSE 0) + Count(Tail(q), t)

Distributing == mpc \in {"join", "returned", "raised", "saving", "exit0"}
DistributeFinished == mpc \in {"returned", "raised", "saving", "exit0"}
DistributeReturned == mpc \in {"returned", "saving", "exit0"}

\* C1: the mapping returned by distribute_tests has exactly one entry per
\* TestCase of the backlog, none for a test outside it, and each entry names
\* one server of the pool.
C1_OneEntryPerTest ==
    DistributeReturned =>
        /\ DOMAIN results = Tests
        /\ \A t \in DOMAIN results : results[t].server \in Servers

\* C2: every TestCase put on the queue is handed out by get_nowait at most
\* once and executed at most once; it is either still on the queue or was
\* popped, never both (nothing is put back); once every worker has finished
\* each one was popped exactly once.
C2_PoppedExactlyOnce ==
    Distributing =>
        \A t \in Tests :
            /\ Count(popped, t) + Count(test_case_queue, t) = 1
            /\ runs[t] <= Count(popped, t)
            /\ (\A s \in Servers : WorkerFinished(s)) => Count(popped, t) = 1

\* C2 witness: two workers shared a backlog of two tests, one of which
\* failed and one of which raised, and all workers have finished.
C2_Witness ==
    /\ mpc \in {"returned", "raised"}
    /\ squish_servers = 2
    /\ Len(popped) = 2
    /\ \E t, u \in Tests : outcome[t].kind = "raise" /\ outcome[u].kind = "fail44"
    /\ wtc[1] # Unbound /\ wtc[2] # Unbound

\* C3: a failing test (exit 44, other non-zero exit, exception) does not end
\* the batch: no worker stops while an item is left on the queue, and when
\* distribute_tests finishes every TestCase of the backlog has been executed.
C3_FailureNeverAbortsBatch ==
    /\ \A s \in Servers : WorkerFinished(s) => test_case_queue = <<>>
    /\ DistributeFinished => \A t \in Tests : runs[t] = 1

\* C3 witness: one worker, the first test it popped raised, it went on to
\* the second, which exited with 44, and distribute_tests returned.
C3_Witness ==
    /\ mpc = "returned"
    /\ squish_servers = 1
    /\ Len(popped) = 2
    /\ outcome[popped[1]].kind = "raise"
    /\ outcome[popped[2]].kind = "fail44"

\* C4: when a test's invocation raises, the returned mapping still has one
\* entry per backlog test and the faulting test's entry has success = false.
C4_FaultingTestHasFailedEntry ==
    DistributeReturned =>
        /\ Cardinality(DOMAIN results) = Len(test_cases)
        /\ \A t \in Tests :
              outcome[t].kind = "raise" => (t \in DOMAIN results /\ ~results[t].success)

\* C5: no exception escapes a worker, so distribute_tests never raises.
C5_NoExceptionEscapesWorker ==
    /\ \A s \in Servers : wpc[s] # "raised"
    /\ mpc # "raised"

\* mean a is not smaller than mean b, on the store as it was when main sorted
NotShorter(t, u) ==
    ~MeanLess(get_average_execution_time(loaded, tc_name[t]),
              get_average_execution_time(loaded, tc_name[u]))

\* C6: the queue is filled with the backlog in descending order of
\* historical mean, so the tests are popped in non-increasing order of mean.
C6_DispatchLongestFirst ==
    \A i, j \in 1..Len(popped) : i < j => NotShorter(popped[i], popped[j])

\* C7: when distribute_tests returns, every worker has finished, the queue
\* is empty, no test is in flight, and the mapping holds the result of
\* every invocation that produced one.
C7_ReturnsAfterAllWorkersFinished ==
    DistributeReturned =>
        /\ \A s \in Servers : wpc[s] = "done"
        /\ test_case_queue = <<>>
        /\ \A t \in Tests :
              /\ runs[t] = 1
              /\ outcome[t].kind # "raise" =>
                    /\ t \in DOMAIN results
                    /\ results[t].success = (outcome[t].kind = "ok")
                    /\ results[t].duration = outcome[t].duration

\* C7 witness: distribute_tests returned after two workers each executed
\* one test of a backlog of two.
C7_Witness ==
    /\ mpc = "returned"
    /\ squish_servers = 2
    /\ DOMAIN results = {1, 2}
    /\ server_test_counts[1] = 1
    /\ server_test_counts[2] = 1

Measured(n) ==
    Cardinality({t \in Tests : tc_name[t] = n /\ outcome[t].kind \in {"ok", "fail44", "error"}})

\* number of tests named n that were executed
Executed(n) == Cardinality({t \in Tests : tc_name[t] = n /\ runs[t] > 0})

\* C9: a run that starts distribution writes the store exactly once, at its
\* end, and the written mapping holds every duration measured in the run.
C9_StoreWrittenOnceWithAllDurations ==
    /\ saves <= 1
    /\ mpc \in {"raised", "exit0"} =>
          /\ saves = 1
          /\ ~file.partial
          /\ \A n \in Names :
                Len(get_execution_times(json_load(file.data), n))
                    = Len(get_execution_times(loaded, n)) + Measured(n)

\* C10: every executed test, whatever its outcome, adds exactly one duration
\* to its record, and its result is a success only for exit status 0.
C10_EveryOutcomeYieldsOneSample ==
    (mpc \in {"returned", "raised"}) =>
        /\ \A n \in Names :
              Len(get_execution_times(execution_history, n))
                  = Len(get_execution_times(loaded, n)) + Executed(n)
        /\ \A t \in DOMAIN results : results[t].success = (outcome[t].kind = "ok")

\* C12: a reader of the store file never finds it partially written: at
\* every moment the file holds a complete mapping, the previous one or the
\* new one.
C12_NoPartialFile ==
    file.exists => ~file.partial

\* the (test, success) pairs a deterministic invocation gives for the backlog
ExpectedPairs ==
    {<<t, outcome[t].kind = "ok">> : t \in {u \in Tests : outcome[u].kind # "raise"}}

\* C13: for the same backlog, servers and invocation outcomes, every
\* interleaving of distribute_tests ends by producing the same set of
\* (test, success) pairs, the one the outcomes determine.
C13_SamePairsInEveryInterleaving ==
    DistributeFinished =>
        /\ mpc # "raised"
        /\ {<<t, results[t].success>> : t \in DOMAIN results} = ExpectedPairs

\* C15: with no server configured or no test case discovered, main exits
\* with an error before any distribution: no worker is started, no test is
\* popped or executed, nothing is recorded and the store file is not touched.
C15_FatalConfigAbortsBeforeDistribution ==
    (squish_servers = 0 \/ test_cases = <<>>) =>
        /\ mpc \in {"start", "find", "exit1"}
        /\ (mpc = "find" => squish_servers # 0)
        /\ \A s \in AllServers : wpc[s] = "idle"
        /\ popped = <<>>
        /\ \A t \in AllTests : runs[t] = 0
        /\ execution_history = loaded
        /\ saves = 0
        /\ ~file.partial
        /\ load_execution_history(file) = loaded

\* C15 witness: servers are configured, no test case was discovered, and
\* main has exited with status 1.
C15_Witness ==
    /\ mpc = "exit1"
    /\ squish_servers > 0
    /\ test_cases = <<>>

\* C19: task_done is called once per popped item and never for a failed
\* pop: the calls never outnumber the popped items, and unfinished_tasks
\* never goes below zero.
C19_TaskDoneOncePerPoppedItem ==
    /\ task_done_calls <= Len(popped)
    /\ unfinished_tasks >= 0

\* C20: concurrent records lose no sample: once every worker has finished,
\* the record of each name has grown by one sample for every test of that
\* name whose invocation was measured, with or without prior history.
C20_NoSampleLost ==
    (\A s \in Servers : WorkerFinished(s)) =>
        \A n \in Names :
            Len(get_execution_times(execution_history, n))
                = Len(get_execution_times(loaded, n)) + Measured(n)

\* ------------------------------------------------ the sort (SortSpec)
Sorted == mpc = "distribute"
MeanOf(t) == get_average_execution_time(execution_history, tc_name[t])
HasHistory(t) == tc_name[t] \in DOMAIN execution_history
Positions == 1..Len(sorted_test_cases)

\* the average of all durations the store holds, 0.0 for an empty store
RECURSIVE SumOver(_, _, _)
SumOver(h, K, part) ==
    IF K = {} THEN 0
    ELSE LET k == CHOOSE x \in K : TRUE
         IN  (IF part = "sum" THEN Sum(h[k]) ELSE Len(h[k])) + SumOver(h, K \ {k}, part)

KnownAverage ==
    IF DOMAIN execution_history = {} THEN <<0, 1>>
    ELSE <<SumOver(execution_history, DOMAIN execution_history, "sum"),
           SumOver(execution_history, DOMAIN execution_history, "len")>>

\* the key the claim sorts by: the mean, or the known average without history
FallbackKey(t) == IF HasHistory(t) THEN MeanOf(t) ELSE KnownAverage

\* C11: a test without history is ordered by the average of the known
\* durations, not by 0: the sorted backlog is in descending order of the key
\* "mean, or known average when the test has no history", equal keys in
\* discovery order.
C11_UnknownSortedByKnownAverage ==
    Sorted =>
        \A i, j \in Positions : i < j =>
            /\ ~MeanLess(FallbackKey(sorted_test_cases[i]), FallbackKey(sorted_test_cases[j]))
            /\ ~MeanLess(FallbackKey(sorted_test_cases[j]), FallbackKey(sorted_test_cases[i]))
                  => sorted_test_cases[i] < sorted_test_cases[j]

\* C17: the sorted backlog is a permutation of the discovered one, its
\* means do not increase, and tests of equal mean keep their discovery order.
C17_SortStableDescending ==
    Sorted =>
        /\ Len(sorted_test_cases) = Len(test_cases)
        /\ \A t \in Tests : Count(sorted_test_cases, t) = 1
        /\ \A i, j \in Positions : i < j =>
              /\ ~MeanLess(MeanOf(sorted_test_cases[i]), MeanOf(sorted_test_cases[j]))
              /\ ~MeanLess(MeanOf(sorted_test_cases[j]), MeanOf(sorted_test_cases[i]))
                    => sorted_test_cases[i] < sorted_test_cases[j]

\* C17 witness: three tests were sorted, the last discovered one came
\* first, and the two of equal mean behind it kept their order.
C17_Witness ==
    /\ Sorted
    /\ sorted_test_cases = <<3, 1, 2>>
    /\ ~MeanLess(MeanOf(1), MeanOf(2)) /\ ~MeanLess(MeanOf(2), MeanOf(1))
    /\ HasHistory(1)

\* ---------------------------------------------- the store (StoreSpec)
\* two fractions of positive denominator denote the same number
FracEq(a, b) == a[2] > 0 /\ b[2] > 0 /\ a[1] * b[2] = b[1] * a[2]

C18_SmallRecordStatistics ==
    stats # NoStats =>
        \A n \in Names :
            LET times == get_execution_times(execution_history, n)
            IN  /\ times = <<>> =>
                      /\ FracEq(stats[n].mean, <<0, 1>>)
                      /\ FracEq(stats[n].median, <<0, 1>>)
                      /\ FracEq(stats[n].stdev, <<0, 1>>)
                /\ Len(times) = 1 =>
                      /\ FracEq(stats[n].mean, <<times[1], 1>>)
                      /\ FracEq(stats[n].median, <<times[1], 1>>)
                      /\ FracEq(stats[n].stdev, <<0, 1>>)

\* C18 witness: the statistics were read of a store in which one name has
\* no data and the other a single sample.
C18_Witness ==
    /\ stats # NoStats
    /\ DOMAIN execution_history = {2}
    /\ execution_history[2] = <<2>>

\* ------------------------------------------------ progress (FairSpec)
\* C14: when every invocation ends, distribute_tests ends too: once the
\* workers are submitted, every worker eventually terminates and
\* distribute_tests returns or re-raises; no worker waits for the queue.
C14_DistributeTerminates ==
    (mpc = "join") ~>
        (/\ mpc \in {"returned", "raised"}
         /\ \A s \in Servers : WorkerFinished(s))

\* C14 witness: two workers drained a backlog of two tests, each of them
\* found the queue empty in the end, and distribute_tests returned.
C14_Witness ==
    /\ mpc = "returned"
    /\ squish_servers = 2
    /\ Len(popped) = 2
    /\ wpc[1] = "done" /\ wpc[2] = "done"
    /\ wtc[1] # Unbound /\ wtc[2] # Unbound

====
